---------------------------- MODULE Spec2Model ----------------------------
(***************************************************************************)
(* A model of python-firefly: the Adobe IMS authenticator                  *)
(* (firefly/ims_auth.py), the generation client (firefly/client.py) and    *)
(* its two front ends (firefly/mcp/server.py, firefly/cli.py).             *)
(*                                                                         *)
(* Python values are records tagged by "kind": none, str, int, dict, list. *)
(* A dict is a TLA+ function whose DOMAIN is its key set.  An HTTP         *)
(* response is [exc, status, body]; body is raw text that json() either    *)
(* parses to a value or rejects.                                           *)
(***************************************************************************)
EXTENDS Integers, Sequences, FiniteSets, TLC

VARIABLES now, _access_token, _token_expiry, lastOK, call, conc

vars == <<now, _access_token, _token_expiry, lastOK, call, conc>>

(***************************************************************************)
(* Bounds of the model and constants of the program.                       *)
(***************************************************************************)
MaxTime == 3542

\* threads sharing one AdobeIMSAuth, and calls each of them makes
NThreads == 2

MaxCalls == 2

EarlyTicks == 3

SAFETY_MARGIN == 60

DEFAULT_EXPIRES_IN == 3600

(***************************************************************************)
(* LetIn(v, LAMBDA x : e) is e with x bound to the value of v, which is    *)
(* computed once.                                                          *)
(***************************************************************************)
LetIn(v, F(_)) == CHOOSE y \in {F(x) : x \in {v}} : TRUE

(***************************************************************************)
(* Python values.                                                          *)
(***************************************************************************)
PyNone == [kind |-> "none"]

PyStr(s) == [kind |-> "str", s |-> s]

PyInt(n) == [kind |-> "int", n |-> n]

PyDict(d) == [kind |-> "dict", d |-> d]

PyList(l) == [kind |-> "list", l |-> l]

EmptyDict == [k \in {} |-> PyNone]

\* bool(v): the truth value Python gives a value in a condition
Truthy(v) ==
    CASE v.kind = "none" -> FALSE
      [] v.kind = "str"  -> v.s # ""
      [] v.kind = "int"  -> v.n # 0
      [] v.kind = "dict" -> DOMAIN v.d # {}
      [] v.kind = "list" -> Len(v.l) > 0
      [] OTHER -> TRUE

\* int(v): decimal strings parse, other strings raise ValueError, None and
\* containers raise TypeError
DecimalStrings == [s \in {"62", "3600"} |-> IF s = "62" THEN 62 ELSE 3600]

IntOf(v) ==
    CASE v.kind = "int" -> [raised |-> FALSE, exc |-> "", n |-> v.n]
      [] v.kind = "str" ->
            IF v.s \in DOMAIN DecimalStrings
            THEN [raised |-> FALSE, exc |-> "", n |-> DecimalStrings[v.s]]
            ELSE [raised |-> TRUE, exc |-> "ValueError", n |-> 0]
      [] OTHER -> [raised |-> TRUE, exc |-> "TypeError", n |-> 0]

\* requests.Response.raise_for_status(): HTTPError for 4xx and 5xx only

RaiseForStatus(status) == 400 <= status /\ status < 600

\* requests.Response.json(): a body that is not JSON raises JSONDecodeError,
\* a subclass of ValueError
RespJson(body) ==
    IF body.kind = "notjson"
    THEN [raised |-> TRUE, exc |-> "JSONDecodeError", v |-> PyNone]
    ELSE [raised |-> FALSE, exc |-> "", v |-> body]

(***************************************************************************)
(* Responses of the identity provider.                                     *)
(***************************************************************************)
NotJSON == [kind |-> "notjson"]

TransportError(e) == [exc |-> e, status |-> 0, body |-> NotJSON]

Http(status, body) == [exc |-> "", status |-> status, body |-> body]

TokenBody(tok) == PyDict([k \in {"access_token"} |-> tok])

TokenBodyExp(tok, e) ==
    PyDict([k \in {"access_token", "expires_in"} |->
                IF k = "access_token" THEN tok ELSE e])

ErrorBody == PyDict([k \in {"error"} |-> PyStr("invalid_client")])

IMSResponses ==
    { TransportError("ConnectionError"),
      Http(401, ErrorBody), Http(500, ErrorBody),
      Http(302, TokenBody(PyStr("t1"))),
      Http(200, NotJSON), Http(200, PyList(<<>>)), Http(200, ErrorBody),
      Http(200, TokenBody(PyStr(""))), Http(200, TokenBody(PyNone)),
      Http(200, TokenBody(PyStr("t2"))),
      Http(200, TokenBodyExp(PyStr("t2"), PyInt(62))),
      Http(200, TokenBodyExp(PyStr("t2"), PyStr("abc"))) }
    \cup { Http(200, TokenBodyExp(PyStr("t1"), e)) :
              e \in {PyInt(62), PyStr("62"), PyStr("abc"), PyNone} }
    \cup { Http(200, TokenBody(PyStr("t1"))) }

(***************************************************************************)
(* AdobeIMSAuth.get_access_token, on a cache [tok, exp] at time t with the *)
(* identity provider answering resp.  The result tells whether an exchange *)
(* was made, the exception that left the try block (if any), the cache     *)
(* afterwards and the value returned.                                      *)
(***************************************************************************)

\* the expiry left out of the test: any cached token is a hit
CacheHitAnyAge(tok, exp, t) == Truthy(tok)

CacheHit(tok, exp, t) == Truthy(tok) /\ t < exp - SAFETY_MARGIN

AuthFail(tok, exp, e) ==
    [exchanges |-> 1, outcome |-> "FireflyAuthError", cause |-> e,
     tok |-> tok, exp |-> exp, ret |-> PyNone]

Exchange(tok, exp, t, resp) ==
    IF resp.exc # "" THEN AuthFail(tok, exp, resp.exc)
    ELSE IF RaiseForStatus(resp.status) THEN AuthFail(tok, exp, "HTTPError")
    ELSE LetIn(RespJson(resp.body), LAMBDA j :
    IF j.raised THEN AuthFail(tok, exp, j.exc)
    ELSE IF j.v.kind # "dict" THEN AuthFail(tok, exp, "TypeError")
    ELSE IF "access_token" \notin DOMAIN j.v.d THEN AuthFail(tok, exp, "KeyError")
    ELSE LetIn(j.v.d["access_token"], LAMBDA newtok :
         LetIn(IntOf(IF "expires_in" \in DOMAIN j.v.d
                     THEN j.v.d["expires_in"]
                     ELSE PyInt(DEFAULT_EXPIRES_IN)), LAMBDA conv :
            \* _access_token is already assigned when int() raises
            IF conv.raised THEN AuthFail(newtok, exp, conv.exc)
            ELSE [exchanges |-> 1, outcome |-> "return", cause |-> "",
                  tok |-> newtok, exp |-> t + conv.n, ret |-> newtok])))

get_access_token(tok, exp, t, resp) ==
    IF CacheHit(tok, exp, t)
    THEN [exchanges |-> 0, outcome |-> "return", cause |-> "",
          tok |-> tok, exp |-> exp, ret |-> tok]
    ELSE Exchange(tok, exp, t, resp)

\* the most recent successful exchange: when it started, the lifetime it
\* granted and the token it returned
NoExchange == [valid |-> FALSE, t0 |-> 0, T |-> 0, tok |-> PyNone]

Granted(prev, r, t) ==
    IF r.exchanges = 1 /\ r.outcome = "return"
    THEN [valid |-> TRUE, t0 |-> t, T |-> r.exp - t, tok |-> r.ret]
    ELSE prev

(***************************************************************************)
(* State machine of one AdobeIMSAuth instance.                             *)
(***************************************************************************)
NoCall == [op |-> "none"]

\* Threads calling get_access_token on the shared instance.  Each has its
\* position in the method and its locals (now, data); tokFrom and expFrom
\* name the exchange whose answer each cache field was last written from.
Threads == 1 .. NThreads

IdleThread ==
    [pc |-> "idle", now |-> 0, data |-> PyNone, id |-> 0, judgedBy |-> 0,
     calls |-> 0]

NoThreads ==
    [th |-> [i \in Threads |-> IdleThread], tokFrom |-> 0, expFrom |-> 0,
     nextId |-> 1, refreshes |-> 0]

Init ==
    /\ now = 0
    /\ _access_token = PyNone
    /\ _token_expiry = 0
    /\ lastOK = NoExchange
    /\ call = NoCall
    /\ conc = NoThreads

\* the instants at which the clock is sampled: the first few seconds, and the
\* seconds around the end of the default lifetime's validity window
Times ==
    (0 .. EarlyTicks)
        \cup ((DEFAULT_EXPIRES_IN - SAFETY_MARGIN - 2) .. MaxTime)

Tick(Instants) ==
    \E t \in Instants :
        /\ t > now
        /\ now' = t
        /\ UNCHANGED <<_access_token, _token_expiry, lastOK, call, conc>>

GetAccessToken ==
    \E resp \in IMSResponses :
    \E r \in {get_access_token(_access_token, _token_expiry, now, resp)} :
        /\ _access_token' = r.tok
        /\ _token_expiry' = r.exp
        /\ lastOK' = Granted(lastOK, r, now)
        /\ call' = [op |-> "get_access_token", t |-> now,
                    preTok |-> _access_token, preExp |-> _token_expiry,
                    prevOK |-> lastOK, resp |-> resp,
                    exchanges |-> r.exchanges, outcome |-> r.outcome,
                    cause |-> r.cause, ret |-> r.ret]
        /\ UNCHANGED <<now, conc>>

NextAuth == Tick(Times) \/ GetAccessToken

SpecAuth == Init /\ [][NextAuth]_vars

(***************************************************************************)
(* FireflyClient.generate_image: the request body.                         *)
(***************************************************************************)
Put(d, k, v) == [x \in DOMAIN d \cup {k} |-> IF x = k THEN v ELSE d[x]]

\* dict.update(kw)
Update(d, kw) ==
    [x \in DOMAIN d \cup DOMAIN kw |-> IF x \in DOMAIN kw THEN kw[x] ELSE d[x]]

\* the optional parameters set before content_class, with their wire names,
\* in the order of the if-statements

PlainParams ==
    << <<"num_variations", "numVariations">>, <<"style", "style">>,
       <<"structure", "structure">>,
       <<"prompt_biasing_locale_code", "promptBiasingLocaleCode">>,
       <<"negative_prompt", "negativePrompt">>, <<"seed", "seed">>,
       <<"aspect_ratio", "aspectRatio">>, <<"output_format", "outputFormat">> >>

ContentClasses == {PyStr("photo"), PyStr("art")}

\* the check left out: every content_class goes through
ContentClassAcceptedAny(v) == TRUE

ContentClassAccepted(v) == v \in ContentClasses

\* `if x:` in place of `if x is not None:`
IsSuppliedTruthy(v) == Truthy(v)

\* `x is not None`
IsSupplied(v) == v # PyNone

RECURSIVE AddPlain(_, _, _)
AddPlain(data, args, i) ==
    IF i > Len(PlainParams) THEN data
    ELSE LET p == PlainParams[i] IN
         AddPlain(IF IsSupplied(args[p[1]]) THEN Put(data, p[2], args[p[1]])
                  ELSE data,
                  args, i + 1)

BuildData(args) ==
    LET d0 == [k \in {"prompt"} |-> args.prompt]
        d1 == AddPlain(d0, args, 1)
    IN  IF IsSupplied(args.content_class)
             /\ ~ContentClassAccepted(args.content_class)
        THEN [raised |-> TRUE, exc |-> "ValueError", data |-> d0]
        ELSE LET d2 == IF IsSupplied(args.content_class)
                       THEN Put(d1, "contentClass", args.content_class)
                       ELSE d1
             IN  [raised |-> FALSE, exc |-> "", data |-> Update(d2, args.kwargs)]

(***************************************************************************)
(* FireflyClient._request: token, headers, the POST and its status.        *)
(***************************************************************************)
BASE_URL == "https://firefly-api.adobe.io/v3/images/generate"

\* str(v) as an f-string renders it
PyFormat(v) ==
    CASE v.kind = "str" -> v.s
      [] v.kind = "none" -> "None"
      [] OTHER -> "<object>"

\* the scheme left out of Authorization
HeadersNoScheme(token, client_id) ==
    [h \in {"Authorization", "x-api-key", "Content-Type", "Accept"} |->
        CASE h = "Authorization" -> PyFormat(token)
          [] h = "x-api-key" -> client_id
          [] OTHER -> "application/json"]

Headers(token, client_id) ==
    [h \in {"Authorization", "x-api-key", "Content-Type", "Accept"} |->
        CASE h = "Authorization" -> "Bearer " \o PyFormat(token)
          [] h = "x-api-key" -> client_id
          [] OTHER -> "application/json"]

NoRequest == [sent |-> FALSE]

NoResponse == [exc |-> "none", status |-> 0, body |-> NotJSON]

\* the except clause for HTTPError
StatusError(status) ==
    IF status = 401 THEN "FireflyAuthError" ELSE "FireflyAPIError"

\* The message of a raised error: its fixed text and what the f-string puts
\* after it (an exception as str(e) prints it, a response's text, or the
\* repr of a Response object, which shows the status only).
ErrorMessage(text, about) == [text |-> text, about |-> about]

NoError == ErrorMessage("", PyNone)

StrOfException(e) == [exception |-> e]

\* e.response.text: the raw body
ResponseText(resp) == resp.body

\* f"{resp}" of a requests.Response: "<Response [200]>"
ResponseRepr(resp) == [repr |-> "<Response [status]>", status |-> resp.status]

\* no catch-all clause: the exception leaves _request as it is
RequestFailedUncaught(e) == e

\* the clause `except Exception` around requests.request
RequestFailed(e) == "FireflyAPIError"

_request(tok, exp, t, client_id, data, ims, gen) ==
    LetIn(get_access_token(tok, exp, t, ims), LAMBDA a :
    LetIn([exchanges |-> a.exchanges, tok |-> a.tok, exp |-> a.exp,
           ims |-> IF a.exchanges = 1 THEN ims ELSE NoResponse,
           granted |-> a.exchanges = 1 /\ a.outcome = "return",
           token |-> a.ret], LAMBDA base :
    IF a.outcome # "return"
    THEN base @@ [outcome |-> a.outcome, cause |-> a.cause, posts |-> 0,
                  request |-> NoRequest, gen |-> NoResponse,
                  error |-> ErrorMessage("Failed to retrieve access token: ",
                                         StrOfException(a.cause))]
    ELSE LetIn(base @@ [posts |-> 1, gen |-> gen,
                        request |-> [sent |-> TRUE, method |-> "POST",
                                     url |-> BASE_URL,
                                     headers |-> Headers(a.ret, client_id),
                                     json |-> data]], LAMBDA sent :
         IF gen.exc # ""
         THEN sent @@ [outcome |-> RequestFailed(gen.exc), cause |-> gen.exc,
                       error |-> ErrorMessage("Request failed: ",
                                              StrOfException(gen.exc))]
         ELSE IF RaiseForStatus(gen.status)
         THEN sent @@ [outcome |-> StatusError(gen.status), cause |-> "HTTPError",
                       error |-> ErrorMessage(IF gen.status = 401
                                              THEN "Unauthorized: "
                                              ELSE "API error: ",
                                              ResponseText(gen))]
         ELSE sent @@ [outcome |-> "return", cause |-> "", error |-> NoError])))

(***************************************************************************)
(* FireflyClient.generate_image: mapping the response body.                *)
(***************************************************************************)
Raise(e) == [raised |-> TRUE, exc |-> e, v |-> PyNone]

Value(v) == [raised |-> FALSE, exc |-> "", v |-> v]

\* v[key] for a string key: KeyError on a dict without it, TypeError on
\* anything that is not a dict
GetItem(v, key) ==
    IF v.kind # "dict" THEN Raise("TypeError")
    ELSE IF key \notin DOMAIN v.d THEN Raise("KeyError")
    ELSE Value(v.d[key])

\* `for output in v`: a list yields its elements, a dict its keys and a str
\* its characters (strings, all alike to the loop body: the first one of a
\* non-empty dict or str stands for them), anything else is not iterable
Iterate(v) ==
    CASE v.kind = "list" -> Value(v.l)
      [] v.kind = "dict" ->
            Value(IF DOMAIN v.d = {} THEN <<>>
                  ELSE <<PyStr(CHOOSE k \in DOMAIN v.d : TRUE)>>)
      [] v.kind = "str" -> Value(IF v.s = "" THEN <<>> ELSE <<v>>)
      [] OTHER -> Raise("TypeError")

\* FireflyImageOutput(seed=output["seed"],
\*                    image=FireflyImage(url=output["image"]["url"]))
ParseOutput(o) ==
    LetIn(GetItem(o, "seed"), LAMBDA seed :
    IF seed.raised THEN seed
    ELSE LetIn(GetItem(o, "image"), LAMBDA image :
    IF image.raised THEN image
    ELSE LetIn(GetItem(image.v, "url"), LAMBDA url :
    IF url.raised THEN url
    ELSE Value([seed |-> seed.v, image |-> [url |-> url.v]]))))

RECURSIVE ParseOutputs(_, _, _)
ParseOutputs(items, i, acc) ==
    IF i > Len(items) THEN Value(acc)
    ELSE LetIn(ParseOutput(items[i]), LAMBDA o :
         IF o.raised THEN o ELSE ParseOutputs(items, i + 1, Append(acc, o.v)))

ParseResponse(resp) ==
    LetIn(RespJson(resp.body), LAMBDA j :
    IF j.raised THEN j
    ELSE LetIn(GetItem(j.v, "outputs"), LAMBDA outs :
    IF outs.raised THEN outs
    ELSE LetIn(Iterate(outs.v), LAMBDA items :
    IF items.raised THEN items
    ELSE LetIn(ParseOutputs(items.v, 1, <<>>), LAMBDA outputs :
    IF outputs.raised THEN outputs
    ELSE LetIn(GetItem(j.v, "size"), LAMBDA size :
    IF size.raised THEN size
    ELSE LetIn(GetItem(size.v, "width"), LAMBDA width :
    IF width.raised THEN width
    ELSE LetIn(GetItem(size.v, "height"), LAMBDA height :
    IF height.raised THEN height
    ELSE Value([size |-> [width |-> width.v, height |-> height.v],
                outputs |-> outputs.v,
                contentClass |-> IF "contentClass" \in DOMAIN j.v.d
                                 THEN j.v.d["contentClass"] ELSE PyNone,
                _response |-> resp]))))))))

\* except (KeyError, IndexError, TypeError)
FormatCaught == {"KeyError", "IndexError", "TypeError"}

generate_image(tok, exp, t, client_id, args, ims, gen) ==
    LetIn(BuildData(args), LAMBDA b :
    IF b.raised
    THEN [exchanges |-> 0, tok |-> tok, exp |-> exp, ims |-> NoResponse,
          granted |-> FALSE, token |-> PyNone, posts |-> 0,
          request |-> NoRequest, gen |-> NoResponse,
          outcome |-> b.exc, cause |-> b.exc, result |-> PyNone,
          error |-> ErrorMessage("content_class must be either 'photo' or 'art'",
                                 PyNone)]
    ELSE LetIn(_request(tok, exp, t, client_id, b.data, ims, gen), LAMBDA q :
    IF q.outcome # "return" THEN q @@ [result |-> PyNone]
    ELSE LetIn(ParseResponse(gen), LAMBDA p :
    IF ~p.raised
    THEN [q EXCEPT !.outcome = "FireflyImageResponse"] @@ [result |-> p.v]
    ELSE IF p.exc \in FormatCaught
    THEN [q EXCEPT !.outcome = "FireflyAPIError", !.cause = p.exc,
                   !.error = ErrorMessage("Unexpected response format: ",
                                          ResponseRepr(gen))]
            @@ [result |-> PyNone]
    ELSE [q EXCEPT !.outcome = p.exc, !.cause = p.exc,
                   !.error = ErrorMessage("", StrOfException(p.exc))]
            @@ [result |-> PyNone])))

(***************************************************************************)
(* One FireflyClient (client_id CLIENT_ID) used over time.                 *)
(***************************************************************************)
CLIENT_ID == "dummy_id"

GrantedBy(prev, r, t) ==
    IF r.granted
    THEN [valid |-> TRUE, t0 |-> t, T |-> r.exp - t, tok |-> r.token]
    ELSE prev

\* An answer of a service is drawn only when the call reaches that service.
AsksIMS(tok, exp, t, args) == ~BuildData(args).raised /\ ~CacheHit(tok, exp, t)

AsksGen(tok, exp, t, args, ims) ==
    /\ ~BuildData(args).raised
    /\ get_access_token(tok, exp, t, ims).outcome = "return"

GenerateImage(Args, IMS, Gen) ==
    \E args \in Args :
    \E ims \in IF AsksIMS(_access_token, _token_expiry, now, args)
                THEN IMS ELSE {NoResponse} :
    \E gen \in IF AsksGen(_access_token, _token_expiry, now, args, ims)
                THEN Gen ELSE {NoResponse} :
    \E r \in {generate_image(_access_token, _token_expiry, now, CLIENT_ID,
                             args, ims, gen)} :
        /\ _access_token' = r.tok
        /\ _token_expiry' = r.exp
        /\ lastOK' = GrantedBy(lastOK, r, now)
        /\ call' = [op |-> "generate_image", t |-> now,
                    preTok |-> _access_token, preExp |-> _token_expiry,
                    prevOK |-> lastOK, args |-> args, client_id |-> CLIENT_ID,
                    ims |-> r.ims, exchanges |-> r.exchanges,
                    token |-> r.token, posts |-> r.posts,
                    request |-> r.request, gen |-> r.gen,
                    outcome |-> r.outcome, cause |-> r.cause,
                    result |-> r.result, error |-> r.error]
        /\ UNCHANGED <<now, conc>>

(***************************************************************************)
(* Arguments and responses the client is driven with.                      *)
(***************************************************************************)
NoArgs(prompt) ==
    [prompt |-> PyStr(prompt), num_variations |-> PyNone, style |-> PyNone,
     structure |-> PyNone, prompt_biasing_locale_code |-> PyNone,
     negative_prompt |-> PyNone, seed |-> PyNone, aspect_ratio |-> PyNone,
     output_format |-> PyNone, content_class |-> PyNone,
     kwargs |-> EmptyDict]

Output(seed, url) ==
    PyDict([k \in {"seed", "image"} |->
              IF k = "seed" THEN seed
              ELSE PyDict([u \in {"url"} |-> url])])

Out1 == Output(PyInt(1779323515), PyStr("https://example/asdf"))

Out2 == Output(PyInt(7), PyStr("https://example/qwer"))

Size(w, h) == PyDict([k \in {"width", "height"} |-> IF k = "width" THEN w ELSE h])

Size2048 == Size(PyInt(2048), PyInt(2048))

GenBody(outputs, size) ==
    PyDict([k \in {"outputs", "size"} |-> IF k = "outputs" THEN outputs ELSE size])

GenBodyCC(outputs, size, cc) ==
    PyDict([k \in {"outputs", "size", "contentClass"} |->
              CASE k = "outputs" -> outputs
                [] k = "size" -> size
                [] OTHER -> cc])

Without(v, key) == PyDict([k \in DOMAIN v.d \ {key} |-> v.d[k]])

GoodBody == GenBodyCC(PyList(<<Out1>>), Size2048, PyStr("art"))

GoodBodies == {GoodBody, GenBody(PyList(<<Out1, Out2>>), Size2048)}

\* bodies that are JSON but not of the expected shape
MissingFieldBodies ==
    { Without(GoodBody, "outputs"), Without(GoodBody, "size"),
      GenBody(PyList(<<Out1>>), Without(Size2048, "width")),
      GenBody(PyList(<<Out1>>), Without(Size2048, "height")),
      GenBody(PyList(<<Without(Out1, "seed")>>), Size2048),
      GenBody(PyList(<<Without(Out1, "image")>>), Size2048),
      GenBody(PyList(<<PyDict([k \in {"seed", "image"} |->
                                 IF k = "seed" THEN PyInt(7) ELSE PyDict(EmptyDict)])>>),
              Size2048),
      GenBody(PyList(<<Out1, Without(Out2, "seed")>>), Size2048),
      ErrorBody }

WrongTypeBodies ==
    { GenBody(PyList(<<Out1>>), Size(PyStr("2048"), PyInt(2048))),
      GenBody(PyList(<<Out1>>), Size(PyInt(2048), PyNone)),
      GenBody(PyList(<<Out1>>), PyList(<<PyInt(2048), PyInt(2048)>>)),
      GenBody(PyList(<<Out1>>), PyStr("2048x2048")),
      GenBody(PyList(<<Output(PyStr("seven"), PyStr("https://example/asdf"))>>), Size2048),
      GenBody(PyList(<<Output(PyInt(7), PyInt(5))>>), Size2048),
      GenBody(PyList(<<Output(PyInt(7), PyNone)>>), Size2048),
      GenBody(PyList(<<PyDict([k \in {"seed", "image"} |->
                                 IF k = "seed" THEN PyInt(7)
                                 ELSE PyStr("https://example/asdf")])>>),
              Size2048),
      GenBody(PyList(<<PyStr("https://example/asdf")>>), Size2048),
      GenBody(PyDict(EmptyDict), Size2048),
      GenBody(PyStr(""), Size2048),
      GenBody(PyNone, Size2048),
      GenBody(Out1, Size2048),
      PyNone, PyList(<<Out1>>) }

OtherBodies ==
    { NotJSON,
      GenBody(PyList(<<>>), Size2048),
      GenBody(PyList(<<Out1>>), Size(PyInt(0), PyInt(2048))) }

GenResponses ==
    { TransportError("ConnectionError"), TransportError("Timeout"),
      TransportError("ValueError") }
    \cup { Http(st, ErrorBody) : st \in {400, 401, 404, 500, 503} }
    \cup { Http(st, GoodBody) : st \in {100, 204, 302} }
    \cup { Http(st, NotJSON) : st \in {302} }
    \cup { Http(200, b) :
             b \in GoodBodies \cup MissingFieldBodies \cup WrongTypeBodies
                      \cup OtherBodies }

IMSFew ==
    { TransportError("ConnectionError"), Http(401, ErrorBody),
      Http(200, TokenBodyExp(PyStr("t1"), PyInt(62))),
      Http(200, TokenBody(PyStr("t2"))),
      Http(200, TokenBody(PyStr(""))),
      Http(200, TokenBodyExp(PyStr("t1"), PyStr("abc"))) }

ArgsFew ==
    { NoArgs("a cat coding"),
      [NoArgs("a cat coding") EXCEPT !.content_class = PyStr("bogus")] }

ClientTimes == 0 .. EarlyTicks

NextClient == Tick(ClientTimes) \/ GenerateImage(ArgsFew, IMSFew, GenResponses)

SpecClient == Init /\ [][NextClient]_vars

(***************************************************************************)
(* The MCP tool generate_image (firefly/mcp/server.py).  It builds a new   *)
(* FireflyClient, with an empty token cache, on every call.                *)
(***************************************************************************)
\* `a or b`
PyOr(a, b) == IF Truthy(a) THEN a ELSE b

McpCredentials(m, env) ==
    [client_id |-> PyOr(m.client_id, env.FIREFLY_CLIENT_ID),
     client_secret |-> PyOr(m.client_secret, env.FIREFLY_CLIENT_SECRET)]

McpCredentialsOk(m, env) ==
    /\ Truthy(McpCredentials(m, env).client_id)
    /\ Truthy(McpCredentials(m, env).client_secret)

McpClientArgs(m) ==
    [prompt |-> m.prompt, num_variations |-> m.num_variations,
     style |-> PyOr(m.style, PyNone), structure |-> PyOr(m.structure, PyNone),
     prompt_biasing_locale_code |-> m.prompt_biasing_locale_code,
     negative_prompt |-> m.negative_prompt, seed |-> m.seed,
     aspect_ratio |-> m.aspect_ratio, output_format |-> m.output_format,
     content_class |-> m.content_class, kwargs |-> EmptyDict]

NotCalled ==
    [exchanges |-> 0, tok |-> PyNone, exp |-> 0, ims |-> NoResponse,
     granted |-> FALSE, token |-> PyNone, posts |-> 0, request |-> NoRequest,
     gen |-> NoResponse, outcome |-> "", cause |-> "", result |-> PyNone]

\* FireflyImageResponse.json(): the raw response parsed again
ResponseJson(result) == RespJson(result._response.body).v

McpFallback(result) ==
    PyDict([k \in {"size", "outputs", "contentClass"} |->
              CASE k = "size" -> Size(result.size.width, result.size.height)
                [] k = "outputs" ->
                     PyList([i \in 1 .. Len(result.outputs) |->
                               Output(result.outputs[i].seed,
                                      result.outputs[i].image.url)])
                [] OTHER -> result.contentClass])

mcp_generate_image(m, env, t, ims, gen) ==
    IF ~McpCredentialsOk(m, env)
    THEN [NotCalled EXCEPT !.outcome = "ValueError", !.cause = "ValueError"]
            @@ [constructed |-> FALSE, args |-> McpClientArgs(m),
                client_id |-> "", ret |-> PyNone]
    ELSE LetIn(McpCredentials(m, env).client_id.s, LAMBDA cid :
         LetIn(generate_image(PyNone, 0, t, cid, McpClientArgs(m), ims, gen),
               LAMBDA r :
         r @@ [constructed |-> TRUE, args |-> McpClientArgs(m),
               client_id |-> cid,
               ret |-> IF r.outcome = "FireflyImageResponse"
                       THEN PyOr(ResponseJson(r.result), McpFallback(r.result))
                       ELSE PyNone]))

McpGenerateImage(MArgs, Envs, IMS, Gen) ==
    \E m \in MArgs, env \in Envs :
    \E ims \in IF McpCredentialsOk(m, env) /\ AsksIMS(PyNone, 0, now, McpClientArgs(m))
                THEN IMS ELSE {NoResponse} :
    \E gen \in IF McpCredentialsOk(m, env)
                    /\ AsksGen(PyNone, 0, now, McpClientArgs(m), ims)
                THEN Gen ELSE {NoResponse} :
    \E r \in {mcp_generate_image(m, env, now, ims, gen)} :
        /\ call' = [op |-> "mcp.generate_image", t |-> now, input |-> m,
                    env |-> env, constructed |-> r.constructed,
                    args |-> r.args, client_id |-> r.client_id,
                    ims |-> r.ims, exchanges |-> r.exchanges,
                    token |-> r.token, posts |-> r.posts,
                    request |-> r.request, gen |-> r.gen,
                    outcome |-> r.outcome, cause |-> r.cause,
                    result |-> r.result, ret |-> r.ret]
        /\ UNCHANGED <<now, _access_token, _token_expiry, lastOK, conc>>

(***************************************************************************)
(* The CLI command `image generate` (firefly/cli.py).  It too builds a new *)
(* FireflyClient per run.  File download and terminal preview act on       *)
(* nothing the model holds: the run records which URLs it would fetch.     *)
(***************************************************************************)

\* the lower bound left out of the range test
NumVariationsAtMost4(n) == n <= 4

\* 1 <= num_variations <= 4
NumVariationsAllowed(n) == 1 <= n /\ n <= 4

\* json.loads on the option texts used here
JsonTexts ==
    [s \in {"{}", "{\"strength\": 50}"} |->
        IF s = "{}" THEN PyDict(EmptyDict)
        ELSE PyDict([k \in {"strength"} |-> PyInt(50)])]

JsonLoads(v) ==
    IF v.s \in DOMAIN JsonTexts THEN Value(JsonTexts[v.s])
    ELSE Raise("JSONDecodeError")

\* except ValueError: JSONDecodeError is a subclass of ValueError
IsValueError(e) == e \in {"ValueError", "JSONDecodeError"}

MockIMS ==
    Http(200, TokenBodyExp(PyStr("mock_token"), PyInt(3600)))

MockGen ==
    Http(200, GenBodyCC(PyList(<<Output(PyInt(123456), PyStr("mock_image"))>>),
                        Size(PyInt(1024), PyInt(1024)), PyStr("mock-art")))

\* the checks of generate() before _generate is called
CliPrecheck(c) ==
    IF ~Truthy(c.client_id) \/ ~Truthy(c.client_secret)
    THEN [ok |-> FALSE, outcome |-> "BadParameter", exit_code |-> 2,
          message |-> "credentials"]
    ELSE IF IsSupplied(c.num_variations) /\ ~NumVariationsAllowed(c.num_variations.n)
    THEN [ok |-> FALSE, outcome |-> "Exit", exit_code |-> -1,
          message |-> "--num-variations must be between 1 and 4"]
    ELSE IF Truthy(c.style) /\ JsonLoads(c.style).raised
    THEN [ok |-> FALSE, outcome |-> "BadParameter", exit_code |-> 2,
          message |-> "Invalid JSON for --style"]
    ELSE IF Truthy(c.structure) /\ JsonLoads(c.structure).raised
    THEN [ok |-> FALSE, outcome |-> "BadParameter", exit_code |-> 2,
          message |-> "Invalid JSON for --structure"]
    ELSE [ok |-> TRUE, outcome |-> "", exit_code |-> 0, message |-> ""]

CliClientArgs(c) ==
    [prompt |-> c.prompt, num_variations |-> c.num_variations,
     style |-> IF Truthy(c.style) THEN JsonLoads(c.style).v ELSE PyNone,
     structure |-> IF Truthy(c.structure) THEN JsonLoads(c.structure).v ELSE PyNone,
     prompt_biasing_locale_code |-> c.prompt_biasing_locale_code,
     negative_prompt |-> c.negative_prompt, seed |-> c.seed,
     aspect_ratio |-> c.aspect_ratio, output_format |-> c.output_format,
     content_class |-> c.content_class, kwargs |-> EmptyDict]

cli_generate(c, t, ims, gen) ==
    LetIn(CliPrecheck(c), LAMBDA pre :
    IF ~pre.ok
    THEN [NotCalled EXCEPT !.outcome = pre.outcome]
            @@ [constructed |-> FALSE, args |-> NoArgs(""), client_id |-> "",
                exit_code |-> pre.exit_code, message |-> pre.message,
                stdout |-> <<>>, fetched |-> <<>>]
    ELSE LetIn(CliClientArgs(c), LAMBDA args :
         LetIn(generate_image(PyNone, 0, t, c.client_id.s, args,
                              IF c.use_mocks THEN MockIMS ELSE ims,
                              IF c.use_mocks THEN MockGen ELSE gen), LAMBDA r :
         LetIn(r @@ [constructed |-> TRUE, args |-> args,
                     client_id |-> c.client_id.s], LAMBDA base :
         IF IsValueError(r.outcome)
         THEN base @@ [exit_code |-> -1,
                       message |-> IF r.outcome = "ValueError"
                                   THEN "content_class must be either 'photo' or 'art'"
                                   ELSE r.outcome,
                       stdout |-> <<>>, fetched |-> <<>>]
         ELSE IF r.outcome # "FireflyImageResponse"
         THEN base @@ [exit_code |-> 1, message |-> r.outcome,
                       stdout |-> <<>>, fetched |-> <<>>]
         ELSE IF c.format = "json"
         THEN base @@ [exit_code |-> 0, message |-> "",
                       stdout |-> <<ResponseJson(r.result)>>, fetched |-> <<>>]
         ELSE LetIn([i \in 1 .. Len(r.result.outputs) |->
                        r.result.outputs[i].image.url], LAMBDA urls :
              base @@ [exit_code |-> 0, message |-> "", stdout |-> urls,
                       fetched |-> IF c.download THEN urls ELSE <<>>])))))

CliGenerate(CArgs, IMS, Gen) ==
    \E c \in CArgs :
    \E ims \in IF CliPrecheck(c).ok /\ ~c.use_mocks
                    /\ AsksIMS(PyNone, 0, now, CliClientArgs(c))
                THEN IMS ELSE {NoResponse} :
    \E gen \in IF CliPrecheck(c).ok /\ ~c.use_mocks
                    /\ AsksGen(PyNone, 0, now, CliClientArgs(c), ims)
                THEN Gen ELSE {NoResponse} :
    \E r \in {cli_generate(c, now, ims, gen)} :
        /\ call' = [op |-> "cli.generate", t |-> now, input |-> c,
                    constructed |-> r.constructed,
                    args |-> r.args, client_id |-> r.client_id,
                    ims |-> r.ims, exchanges |-> r.exchanges,
                    token |-> r.token, posts |-> r.posts,
                    request |-> r.request, gen |-> r.gen,
                    outcome |-> r.outcome, cause |-> r.cause,
                    result |-> r.result, exit_code |-> r.exit_code,
                    message |-> r.message, stdout |-> r.stdout,
                    fetched |-> r.fetched]
        /\ UNCHANGED <<now, _access_token, _token_expiry, lastOK, conc>>

(***************************************************************************)
(* The three entry points driven with varied arguments.                    *)
(***************************************************************************)
KwargsChoices ==
    { EmptyDict,
      [k \in {"contentClass"} |-> PyStr("bogus")],
      [k \in {"numVariations"} |-> PyInt(9)],
      [k \in {"customField"} |-> PyStr("x")] }

ArgsMany ==
    { [NoArgs("a cat coding") EXCEPT !.content_class = cc,
                                     !.num_variations = nv, !.kwargs = kw] :
        cc \in {PyNone, PyStr("photo"), PyStr("art"), PyStr("bogus"), PyStr("")},
        nv \in {PyNone, PyInt(0), PyInt(4), PyInt(5)},
        kw \in KwargsChoices }

IMSTwo == { Http(401, ErrorBody), Http(200, TokenBody(PyStr("t1"))) }

GenTwo == { Http(200, GoodBody), Http(500, ErrorBody) }

McpArgs ==
    { [prompt |-> PyStr("a cat coding"), client_id |-> cid,
       client_secret |-> PyStr("secret"), num_variations |-> nv,
       style |-> st, structure |-> PyNone,
       prompt_biasing_locale_code |-> PyNone, negative_prompt |-> PyNone,
       seed |-> PyNone, aspect_ratio |-> PyNone, output_format |-> PyNone,
       content_class |-> cc] :
        cid \in {PyNone, PyStr("mcp_id")},
        nv \in {PyInt(1), PyInt(0), PyInt(5)},
        st \in {PyNone, PyDict(EmptyDict)},
        cc \in {PyNone, PyStr("bogus")} }

Envs ==
    { [FIREFLY_CLIENT_ID |-> PyNone, FIREFLY_CLIENT_SECRET |-> PyNone],
      [FIREFLY_CLIENT_ID |-> PyStr("env_id"),
       FIREFLY_CLIENT_SECRET |-> PyStr("env_secret")] }

CliBase ==
    [client_id |-> PyStr("cli_id"), client_secret |-> PyStr("secret"),
     prompt |-> PyStr("a cat coding"), num_variations |-> PyNone,
     style |-> PyNone, structure |-> PyNone,
     prompt_biasing_locale_code |-> PyNone, negative_prompt |-> PyNone,
     seed |-> PyNone, aspect_ratio |-> PyNone, output_format |-> PyNone,
     content_class |-> PyNone, download |-> FALSE, show_images |-> FALSE,
     use_mocks |-> FALSE, format |-> "text", verbose |-> FALSE]

CliArgs ==
    { [CliBase EXCEPT !.num_variations = nv, !.content_class = cc,
                      !.style = st, !.use_mocks = um] :
        nv \in {PyNone, PyInt(0), PyInt(1), PyInt(4), PyInt(5)},
        cc \in {PyNone, PyStr("bogus")},
        st \in {PyNone, PyStr("{\"strength\": 50}"), PyStr("not json")},
        um \in BOOLEAN }
    \cup { [CliBase EXCEPT !.client_id = PyNone],
           [CliBase EXCEPT !.client_secret = PyStr("")],
           [CliBase EXCEPT !.client_id = PyNone, !.num_variations = PyInt(9)],
           [CliBase EXCEPT !.structure = PyStr("not json")],
           [CliBase EXCEPT !.structure = PyStr("{}"), !.format = "json"],
           [CliBase EXCEPT !.download = TRUE, !.verbose = TRUE],
           [CliBase EXCEPT !.format = "json", !.use_mocks = TRUE] }

NextArgs ==
    \/ GenerateImage(ArgsMany, IMSTwo, GenTwo)
    \/ McpGenerateImage(McpArgs, Envs, IMSTwo, GenTwo)
    \/ CliGenerate(CliArgs, IMSTwo, GenTwo)

SpecArgs == Init /\ [][NextArgs]_vars

(***************************************************************************)
(* One client whose tokens can expire within the sampled instants: the     *)
(* identity provider also grants a lifetime of one second, and can answer  *)
(* with a null token.                                                      *)
(***************************************************************************)
IMSExpiring ==
    IMSFew \cup { Http(200, TokenBodyExp(PyStr("t3"), PyInt(1))),
                  Http(200, TokenBody(PyNone)) }

NextRefresh ==
    Tick(ClientTimes) \/ GenerateImage(ArgsFew, IMSExpiring, GenTwo)

SpecRefresh == Init /\ [][NextRefresh]_vars

(***************************************************************************)
(* generate_image driven with every combination of its nine optional       *)
(* parameters supplied or left out.                                        *)
(***************************************************************************)
ArgsAllCombos ==
    { [prompt |-> PyStr("a cat coding"), num_variations |-> a1, style |-> a2,
       structure |-> a3, prompt_biasing_locale_code |-> a4,
       negative_prompt |-> a5, seed |-> a6, aspect_ratio |-> a7,
       output_format |-> a8, content_class |-> a9, kwargs |-> EmptyDict] :
        a1 \in {PyNone, PyInt(2)},
        a2 \in {PyNone, PyDict(EmptyDict)},
        a3 \in {PyNone, PyDict([k \in {"strength"} |-> PyInt(50)])},
        a4 \in {PyNone, PyStr("en-US")},
        a5 \in {PyNone, PyStr("")},
        a6 \in {PyNone, PyInt(0)},
        a7 \in {PyNone, PyStr("16:9")},
        a8 \in {PyNone, PyStr("png")},
        a9 \in {PyNone, PyStr("photo")} }
    \cup { [NoArgs("a cat coding") EXCEPT !.content_class = PyStr("art")] }

IMSOk == { Http(200, TokenBody(PyStr("t1"))) }

GenOk == { Http(200, GoodBody) }

NextPayload == GenerateImage(ArgsAllCombos, IMSOk, GenOk)

SpecPayload == Init /\ [][NextPayload]_vars

(***************************************************************************)
(* get_access_token run by several threads on one shared AdobeIMSAuth.     *)
(* The method takes no lock, so threads interleave between any two of its  *)
(* reads and writes of self._access_token and self._token_expiry.  One     *)
(* action is one such read or write (the network exchange, which touches   *)
(* neither field, is one step).                                            *)
(***************************************************************************)
ThreadStep(i, pc, local) ==
    [conc EXCEPT !.th[i] = [local EXCEPT !.pc = pc]]

ThreadRaised(i, e) ==
    [op |-> "thread.get_access_token", thread |-> i, cached |-> FALSE,
     outcome |-> "FireflyAuthError", cause |-> e, ret |-> PyNone,
     retFrom |-> 0, judgedBy |-> 0]

\* now = time.time()
ThreadCall(i) ==
    LET l == conc.th[i] IN
    /\ l.pc = "idle" /\ l.calls < MaxCalls
    /\ conc' = ThreadStep(i, "read_token",
                          [l EXCEPT !.now = now, !.calls = l.calls + 1])
    /\ UNCHANGED <<now, _access_token, _token_expiry, lastOK, call>>

\* `if self._access_token`
ThreadReadToken(i) ==
    LET l == conc.th[i] IN
    /\ l.pc = "read_token"
    /\ conc' = ThreadStep(i, IF Truthy(_access_token) THEN "read_expiry"
                             ELSE "exchange", l)
    /\ UNCHANGED <<now, _access_token, _token_expiry, lastOK, call>>

\* `and now < self._token_expiry - 60`
ThreadReadExpiry(i) ==
    LET l == conc.th[i] IN
    /\ l.pc = "read_expiry"
    /\ conc' = IF l.now < _token_expiry - SAFETY_MARGIN
               THEN ThreadStep(i, "return_cached",
                               [l EXCEPT !.judgedBy = conc.expFrom])
               ELSE ThreadStep(i, "exchange", l)
    /\ UNCHANGED <<now, _access_token, _token_expiry, lastOK, call>>

\* `return self._access_token` on a hit
ThreadReturnCached(i) ==
    LET l == conc.th[i] IN
    /\ l.pc = "return_cached"
    /\ conc' = ThreadStep(i, "idle", l)
    /\ call' = [op |-> "thread.get_access_token", thread |-> i,
                cached |-> TRUE, outcome |-> "return", cause |-> "",
                ret |-> _access_token, retFrom |-> conc.tokFrom,
                judgedBy |-> l.judgedBy]
    /\ UNCHANGED <<now, _access_token, _token_expiry, lastOK>>

\* requests.post, raise_for_status and resp.json()
ThreadExchange(i, IMS) ==
    LET l == conc.th[i] IN
    /\ l.pc = "exchange"
    /\ \E resp \in IMS :
         LET failed == resp.exc # "" \/ RaiseForStatus(resp.status)
                          \/ RespJson(resp.body).raised
         IN  IF failed
             THEN /\ conc' = ThreadStep(i, "idle", l)
                  /\ call' = ThreadRaised(i, IF resp.exc # "" THEN resp.exc
                                             ELSE IF RaiseForStatus(resp.status)
                                             THEN "HTTPError"
                                             ELSE RespJson(resp.body).exc)
             ELSE /\ conc' = [ThreadStep(i, "write_token",
                                 [l EXCEPT !.data = RespJson(resp.body).v,
                                           !.id = conc.nextId])
                                EXCEPT !.nextId = conc.nextId + 1]
                  /\ UNCHANGED call
    /\ UNCHANGED <<now, _access_token, _token_expiry, lastOK>>

\* self._access_token = data["access_token"]
ThreadWriteToken(i) ==
    LET l == conc.th[i] IN
    /\ l.pc = "write_token"
    /\ IF l.data.kind # "dict" \/ "access_token" \notin DOMAIN l.data.d
       THEN /\ conc' = ThreadStep(i, "idle", l)
            /\ call' = ThreadRaised(i, IF l.data.kind # "dict"
                                       THEN "TypeError" ELSE "KeyError")
            /\ UNCHANGED _access_token
       ELSE /\ _access_token' = l.data.d["access_token"]
            /\ conc' = [ThreadStep(i, "write_expiry", l)
                          EXCEPT !.tokFrom = l.id]
            /\ UNCHANGED call
    /\ UNCHANGED <<now, _token_expiry, lastOK>>

\* self._token_expiry = now + int(data.get("expires_in", 3600))
ThreadWriteExpiry(i) ==
    LET l == conc.th[i]
        conv == IntOf(IF "expires_in" \in DOMAIN l.data.d
                      THEN l.data.d["expires_in"]
                      ELSE PyInt(DEFAULT_EXPIRES_IN))
    IN
    /\ l.pc = "write_expiry"
    /\ IF conv.raised
       THEN /\ conc' = ThreadStep(i, "idle", l)
            /\ call' = ThreadRaised(i, conv.exc)
            /\ UNCHANGED _token_expiry
       ELSE /\ _token_expiry' = l.now + conv.n
            /\ conc' = [ThreadStep(i, "return_fresh", l)
                          EXCEPT !.expFrom = l.id]
            /\ UNCHANGED call
    /\ UNCHANGED <<now, _access_token, lastOK>>

\* `return self._access_token` after a refresh
ThreadReturnFresh(i) ==
    LET l == conc.th[i] IN
    /\ l.pc = "return_fresh"
    /\ conc' = [ThreadStep(i, "idle", l)
                  EXCEPT !.refreshes = 1]
    /\ call' = [op |-> "thread.get_access_token", thread |-> i,
                cached |-> FALSE, outcome |-> "return", cause |-> "",
                ret |-> _access_token, retFrom |-> conc.tokFrom,
                judgedBy |-> l.id]
    /\ UNCHANGED <<now, _access_token, _token_expiry, lastOK>>

\* well-formed answers only: what goes wrong below is the interleaving alone
IMSRace ==
    { Http(401, ErrorBody), Http(200, TokenBody(PyStr("t1"))),
      Http(200, TokenBodyExp(PyStr("t2"), PyInt(62))) }

NextRace ==
    \/ Tick(ClientTimes)
    \/ \E i \in Threads :
         \/ ThreadCall(i)
         \/ ThreadReadToken(i)
         \/ ThreadReadExpiry(i)
         \/ ThreadReturnCached(i)
         \/ ThreadExchange(i, IMSRace)
         \/ ThreadWriteToken(i)
         \/ ThreadWriteExpiry(i)
         \/ ThreadReturnFresh(i)

SpecRace == Init /\ [][NextRace]_vars

(***************************************************************************)
(* Claims about the authenticator, checked under SpecAuth.                 *)
(***************************************************************************)
IsGetToken == call.op = "get_access_token"

Is2xx(status) == 200 <= status /\ status < 300

HasTokenField(resp) ==
    /\ resp.exc = ""
    /\ resp.body.kind = "dict"
    /\ "access_token" \in DOMAIN resp.body.d

\* C1: after a successful exchange started at t0 that granted lifetime T, a
\* call at a time with now - t0 < T - 60 makes no exchange and returns the
\* same token; a call with now - t0 >= T - 60 makes exactly one exchange and
\* what it returns is that exchange's token.
C1_WindowDecidesExchange ==
    (IsGetToken /\ call.prevOK.valid) =>
        LET age == call.t - call.prevOK.t0
            T == call.prevOK.T
        IN  /\ (age < T - 60) =>
                  /\ call.exchanges = 0
                  /\ call.outcome = "return"
                  /\ call.ret = call.prevOK.tok
            /\ (age >= T - 60) =>
                  /\ call.exchanges = 1
                  /\ (call.outcome = "return" =>
                        /\ HasTokenField(call.resp)
                        /\ call.ret = call.resp.body.d["access_token"])

\* C2: when get_access_token raises FireflyAuthError both cache fields are
\* what they were before the call.
C2_FailureLeavesCache ==
    (IsGetToken /\ call.outcome = "FireflyAuthError") =>
        /\ _access_token = call.preTok
        /\ _token_expiry = call.preExp

\* C3: on a cache miss, a transport exception, a status outside 2xx or a
\* body without access_token makes get_access_token raise FireflyAuthError
\* and return nothing; the only exception that escapes is FireflyAuthError.
C3_ExchangeFailureIsAuthError ==
    (IsGetToken /\ call.exchanges = 1) =>
        /\ call.outcome \in {"return", "FireflyAuthError"}
        /\ (\/ call.resp.exc # ""
            \/ ~Is2xx(call.resp.status)
            \/ ~HasTokenField(call.resp))
              => (call.outcome = "FireflyAuthError" /\ call.ret = PyNone)

(***************************************************************************)
(* Claims about error mapping in generate_image, checked under SpecClient. *)
(***************************************************************************)
IsGenerate == call.op = "generate_image"

ValidArgs(args) == ~BuildData(args).raised

Answered(resp) == resp.exc = ""

\* C4: with valid arguments, a 401 from the identity endpoint or from the
\* generation endpoint raises FireflyAuthError, every other status outside
\* 2xx from the generation endpoint raises FireflyAPIError, and no result
\* object is returned in any of these cases.
C4_StatusToErrorKind ==
    (IsGenerate /\ ValidArgs(call.args)) =>
        /\ (call.exchanges = 1 /\ Answered(call.ims) /\ call.ims.status = 401)
              => (call.outcome = "FireflyAuthError" /\ call.result = PyNone)
        /\ (call.posts = 1 /\ Answered(call.gen) /\ call.gen.status = 401)
              => (call.outcome = "FireflyAuthError" /\ call.result = PyNone)
        /\ (call.posts = 1 /\ Answered(call.gen) /\ call.gen.status # 401
                /\ ~Is2xx(call.gen.status))
              => (call.outcome = "FireflyAPIError" /\ call.result = PyNone)

\* C5: a generate_image call whose arguments pass local validation ends in a
\* FireflyImageResponse, a FireflyAuthError or a FireflyAPIError, whatever
\* the identity provider and the generation service answer.
C5_ThreeOutcomes ==
    (IsGenerate /\ ValidArgs(call.args)) =>
        call.outcome \in {"FireflyImageResponse", "FireflyAuthError",
                          "FireflyAPIError"}

IsInt(v) == v.kind = "int"

IsStr(v) == v.kind = "str"

HasTyped(v, key, kind) ==
    v.kind = "dict" /\ key \in DOMAIN v.d /\ v.d[key].kind = kind

\* the shape spec section 6 gives the success body
WellFormedOutput(o) ==
    /\ HasTyped(o, "seed", "int")
    /\ HasTyped(o, "image", "dict")
    /\ HasTyped(o.d["image"], "url", "str")

WellFormedBody(b) ==
    /\ HasTyped(b, "outputs", "list")
    /\ \A i \in 1 .. Len(b.d["outputs"].l) : WellFormedOutput(b.d["outputs"].l[i])
    /\ HasTyped(b, "size", "dict")
    /\ HasTyped(b.d["size"], "width", "int")
    /\ HasTyped(b.d["size"], "height", "int")

WellTypedResult(r) ==
    /\ IsInt(r.size.width) /\ IsInt(r.size.height)
    /\ \A i \in 1 .. Len(r.outputs) :
          IsInt(r.outputs[i].seed) /\ IsStr(r.outputs[i].image.url)

GotJsonBody ==
    /\ IsGenerate /\ call.posts = 1 /\ Answered(call.gen)
    /\ Is2xx(call.gen.status) /\ call.gen.body # NotJSON

\* C6: a 2xx JSON body in which outputs or size is missing, or a nested field
\* is missing or of the wrong type, makes generate_image raise
\* FireflyAPIError; no returned result holds a value of the wrong type.
C6_MalformedBodyIsAPIError ==
    /\ (GotJsonBody /\ ~WellFormedBody(call.gen.body))
          => (call.outcome = "FireflyAPIError" /\ call.result = PyNone)
    /\ (IsGenerate /\ call.outcome = "FireflyImageResponse")
          => WellTypedResult(call.result)

(***************************************************************************)
(* Claims about the request body.                                          *)
(***************************************************************************)
\* the wire name of each optional parameter
WireNames ==
    [num_variations |-> "numVariations", style |-> "style",
     structure |-> "structure",
     prompt_biasing_locale_code |-> "promptBiasingLocaleCode",
     negative_prompt |-> "negativePrompt", seed |-> "seed",
     aspect_ratio |-> "aspectRatio", output_format |-> "outputFormat",
     content_class |-> "contentClass"]

SuppliedParams(args) == {p \in DOMAIN WireNames : args[p] # PyNone}

RequestSent == call.op # "none" /\ call.request.sent

\* C7: with no extra keyword fields, every combination of supplied and
\* unsupplied optional parameters gives a generation request whose body has
\* exactly the keys prompt plus the wire name of each supplied parameter,
\* each with the supplied value, and no null value.  (Checked under
\* SpecPayload, where every call is answered and so sends its request.)
C7_BodyKeys ==
    (IsGenerate /\ call.args.kwargs = EmptyDict) =>
        /\ call.request.sent
        /\ LET body == call.request.json
               supplied == SuppliedParams(call.args)
           IN  /\ DOMAIN body = {"prompt"} \cup {WireNames[p] : p \in supplied}
               /\ body["prompt"] = call.args.prompt
               /\ \A p \in supplied : body[WireNames[p]] = call.args[p]
               /\ \A k \in DOMAIN body : body[k] # PyNone

\* C7 witness: a request was sent for a call that supplied seed 0, an empty
\* style dict and content_class photo, and left num_variations out.
C7_Witness ==
    /\ IsGenerate /\ call.request.sent
    /\ call.args.seed = PyInt(0)
    /\ call.args.style = PyDict(EmptyDict)
    /\ call.args.content_class = PyStr("photo")
    /\ call.args.num_variations = PyNone
    /\ call.args.kwargs = EmptyDict
    /\ "seed" \in DOMAIN call.request.json
    /\ "numVariations" \notin DOMAIN call.request.json

\* C8: generate_image with a content_class other than photo or art raises
\* ValueError with no token exchange, no generation request and the token
\* cache unchanged; with photo or art the request body carries that exact
\* value under contentClass.
C8_ContentClassChecked ==
    IsGenerate =>
        /\ (call.args.content_class # PyNone
                /\ call.args.content_class \notin {PyStr("photo"), PyStr("art")})
              => /\ call.outcome = "ValueError"
                 /\ call.exchanges = 0 /\ call.posts = 0
                 /\ ~call.request.sent
                 /\ _access_token = call.preTok
                 /\ _token_expiry = call.preExp
        /\ (call.args.content_class \in {PyStr("photo"), PyStr("art")}
                /\ call.request.sent)
              => /\ "contentClass" \in DOMAIN call.request.json
                 /\ call.request.json["contentClass"] = call.args.content_class

\* C9: no generation request is sent with a body whose contentClass is other
\* than photo or art, whatever the arguments, extra keyword fields included.
C9_SentContentClassValid ==
    (RequestSent /\ "contentClass" \in DOMAIN call.request.json) =>
        call.request.json["contentClass"] \in {PyStr("photo"), PyStr("art")}

\* C10: no generation request is sent with a numVariations outside 1..4,
\* whether the value came in through FireflyClient.generate_image, the MCP
\* tool or the CLI command.
C10_SentNumVariationsInRange ==
    (RequestSent /\ "numVariations" \in DOMAIN call.request.json) =>
        /\ call.request.json["numVariations"].kind = "int"
        /\ call.request.json["numVariations"].n \in 1 .. 4

(***************************************************************************)
(* Claims about the network calls of one generate_image invocation.        *)
(***************************************************************************)
\* local validation as the interface states it
InvalidContentClass(args) ==
    args.content_class # PyNone
        /\ args.content_class \notin {PyStr("photo"), PyStr("art")}

\* how token acquisition ended for the recorded call
TokenOutcome ==
    get_access_token(call.preTok, call.preExp, call.t, call.ims).outcome

\* C11: one generate_image invocation makes at most one token exchange and
\* at most one generation POST; exactly one POST when validation and token
\* acquisition succeed, none when validation fails or token acquisition
\* raises FireflyAuthError (which is then the outcome: nothing is retried).
C11_AtMostOneOfEach ==
    IsGenerate =>
        /\ call.exchanges \in {0, 1}
        /\ call.posts \in {0, 1}
        /\ InvalidContentClass(call.args) => call.posts = 0
        /\ (~InvalidContentClass(call.args)
                /\ TokenOutcome = "FireflyAuthError")
              => (call.posts = 0 /\ call.outcome = "FireflyAuthError")
        /\ (~InvalidContentClass(call.args) /\ TokenOutcome = "return")
              => call.posts = 1

\* C11 witness: a call that made one exchange and one POST, the POST was
\* answered 500 and the call ended in FireflyAPIError.
C11_Witness ==
    /\ IsGenerate
    /\ call.exchanges = 1 /\ call.posts = 1
    /\ call.gen.exc = "" /\ call.gen.status = 500
    /\ call.outcome = "FireflyAPIError"

\* the token of a successful identity-provider answer
ExchangedToken(resp) == resp.body.d["access_token"]

\* C12: generate_image on a client whose cached token is expired (now at or
\* past the stored expiry) makes exactly one token exchange, and a
\* generation POST is issued only after that exchange returned and carries
\* the token it returned, not the cached one.
C12_ExpiredTokenRefreshed ==
    (IsGenerate /\ ~InvalidContentClass(call.args)
        /\ call.preTok # PyNone /\ call.t >= call.preExp) =>
        /\ call.exchanges = 1
        /\ call.posts = 1 =>
              /\ TokenOutcome = "return"
              /\ HasTokenField(call.ims)
              /\ call.token = ExchangedToken(call.ims)
              /\ call.request.headers["Authorization"]
                    = "Bearer " \o PyFormat(ExchangedToken(call.ims))

\* C12 witness: token t3 was cached and had expired, the call exchanged once,
\* got t2 and sent the POST with Bearer t2.
C12_Witness ==
    /\ IsGenerate
    /\ call.preTok = PyStr("t3") /\ call.t >= call.preExp
    /\ call.exchanges = 1 /\ call.posts = 1
    /\ call.request.headers["Authorization"] = "Bearer t2"

\* what get_access_token returned in the recorded call
TokenReturned ==
    get_access_token(call.preTok, call.preExp, call.t, call.ims).ret

\* a token as text: a string as it is, None as Python prints it
TokenText(tok) == IF tok.kind = "str" THEN tok.s ELSE "None"

\* C13: every generation request carries Authorization "Bearer " followed
\* by the token get_access_token returned in that invocation, x-api-key equal
\* to the client_id the client was constructed with, and Content-Type and
\* Accept application/json.
C13_RequestHeaders ==
    (IsGenerate /\ call.request.sent) =>
        LET h == call.request.headers IN
        /\ DOMAIN h = {"Authorization", "x-api-key", "Content-Type", "Accept"}
        /\ h["Authorization"] = "Bearer " \o TokenText(TokenReturned)
        /\ h["x-api-key"] = CLIENT_ID
        /\ h["Content-Type"] = "application/json"
        /\ h["Accept"] = "application/json"

\* C13 witness: a request sent with a token taken from the cache (no exchange
\* in this invocation) under Authorization "Bearer t1".
C13_Witness ==
    /\ IsGenerate /\ call.request.sent
    /\ call.exchanges = 0
    /\ call.preTok = PyStr("t1")
    /\ call.request.headers["Authorization"] = "Bearer t1"

(***************************************************************************)
(* Claims about the result object and the errors of generate_image.        *)
(***************************************************************************)
ReturnedResult == IsGenerate /\ call.outcome = "FireflyImageResponse"

\* the result's outputs are the body's outputs, entry by entry
SameOrderAsBody(r, b) ==
    /\ HasTyped(b, "outputs", "list")
    /\ Len(r.outputs) = Len(b.d["outputs"].l)
    /\ \A i \in 1 .. Len(r.outputs) :
          /\ r.outputs[i].seed = b.d["outputs"].l[i].d["seed"]
          /\ r.outputs[i].image.url = b.d["outputs"].l[i].d["image"].d["url"]

TransportFailed(resp) == resp.exc \notin {"", "none"}

\* C15: a transport failure of the generation request (timeout, connection
\* error, or any other exception such as ValueError) makes generate_image
\* raise FireflyAPIError; a transport failure of the token exchange of the
\* same invocation makes it raise FireflyAuthError, and no POST is made.
C15_TransportFailureKinds ==
    (IsGenerate /\ ~InvalidContentClass(call.args)) =>
        /\ (call.posts = 1 /\ TransportFailed(call.gen))
              => (call.outcome = "FireflyAPIError" /\ call.result = PyNone)
        /\ (call.exchanges = 1 /\ TransportFailed(call.ims))
              => (call.outcome = "FireflyAuthError" /\ call.posts = 0)

\* C15 witness: the transport call of the generation request raised
\* ValueError and the call ended in FireflyAPIError.
C15_Witness ==
    /\ IsGenerate /\ call.posts = 1
    /\ call.gen.exc = "ValueError"
    /\ call.outcome = "FireflyAPIError"

\* generate_image raised its unexpected-format error
FormatError ==
    /\ IsGenerate /\ call.outcome = "FireflyAPIError"
    /\ call.cause \in {"KeyError", "IndexError", "TypeError"}

\* C16: the FireflyAPIError raised for a generation response of unexpected
\* format carries the raw body of that response.
C16_FormatErrorCarriesBody ==
    FormatError => call.error.about = ResponseText(call.gen)

(***************************************************************************)
(* Claims about the CLI command.                                           *)
(***************************************************************************)
IsCli == call.op = "cli.generate"

CliOutOfRange ==
    /\ IsCli
    /\ call.input.num_variations # PyNone
    /\ call.input.num_variations.n \notin 1 .. 4

CliRejectedEarly ==
    /\ call.exit_code = -1
    /\ call.message = "--num-variations must be between 1 and 4"
    /\ ~call.constructed
    /\ call.exchanges = 0 /\ call.posts = 0 /\ ~call.request.sent

\* C17 as stated: the CLI generate command given a num_variations outside
\* 1..4 exits with code -1 and the message "--num-variations must be between
\* 1 and 4", before a FireflyClient is constructed and before any network
\* call.
C17_CliRejectsNumVariations == CliOutOfRange => CliRejectedEarly

\* C17 amended: the same, for a command that was given a client_id and a
\* client_secret.
C17_CliRejectsWithCredentials ==
    (CliOutOfRange /\ call.input.client_id \notin {PyNone, PyStr("")}
                   /\ call.input.client_secret \notin {PyNone, PyStr("")})
        => CliRejectedEarly

\* C17 witness: a run with credentials and num_variations 5 ended with exit
\* code -1 and no client.
C17_Witness ==
    /\ CliOutOfRange
    /\ call.input.client_id = PyStr("cli_id")
    /\ call.input.num_variations = PyInt(5)
    /\ call.exit_code = -1 /\ ~call.constructed

(***************************************************************************)
(* Claims about concurrent use, checked under SpecRace.                    *)
(***************************************************************************)
IsThreadCall == call.op = "thread.get_access_token"

\* no thread is between writing the token and writing the expiry
NoWriteInProgress == \A i \in Threads : conc.th[i].pc # "write_expiry"

\* C18: with get_access_token calls interleaved on one shared instance,
\* once a refresh has completed the cached token and the cached expiry come
\* from the same exchange (whenever no call is between its two writes), and
\* no call returns from the cache a token that it judged valid by the expiry
\* of a different exchange.
C18_CacheFromOneExchange ==
    /\ (conc.refreshes >= 1 /\ NoWriteInProgress)
          => conc.tokFrom = conc.expFrom
    /\ (IsThreadCall /\ call.cached) => call.retFrom = call.judgedBy

(***************************************************************************)
(* Claims about what changes the token cache, checked under SpecClient.    *)
(***************************************************************************)
CacheChanged ==
    <<_access_token, _token_expiry>> # <<call.preTok, call.preExp>>

\* the cache as the token step of the recorded call left it
CacheAfterTokenStep ==
    LET a == get_access_token(call.preTok, call.preExp, call.t, call.ims)
    IN  <<a.tok, a.exp>>

InsideWindow ==
    call.prevOK.valid /\ call.t - call.prevOK.t0 < call.prevOK.T - SAFETY_MARGIN

\* C19: the token cache is changed only by a successful exchange: a call
\* that changed it made an exchange that returned a token, the generation
\* step leaves it as the token step left it whatever the generation endpoint
\* answers, and a generate_image call inside the validity window of the last
\* successful exchange makes no exchange and sends that exchange's token.
C19_CacheFrame ==
    IsGenerate =>
        /\ CacheChanged => (call.exchanges = 1 /\ TokenOutcome = "return")
        /\ call.posts = 1
              => <<_access_token, _token_expiry>> = CacheAfterTokenStep
        /\ (InsideWindow /\ ~InvalidContentClass(call.args))
              => (call.exchanges = 0 /\ call.token = call.prevOK.tok)

(***************************************************************************)
(* Claims about the token handed on, checked under SpecRefresh.            *)
(***************************************************************************)
NonEmptyToken(tok) == tok.kind = "str" /\ tok.s # ""

\* C20: every value get_access_token returns is a non-empty token string,
\* so no generation request is sent with an empty or null bearer token.
C20_TokenNonEmpty ==
    IsGenerate =>
        /\ (TokenOutcome = "return" /\ ~InvalidContentClass(call.args))
              => NonEmptyToken(TokenReturned)
        /\ call.request.sent
              => call.request.headers["Authorization"]
                    \notin {"Bearer ", "Bearer None"}

=============================================================================
